---- MODULE Spec2Model ----
(***************************************************************************)
(* Model of src/app.py: the TradingView -> MEXC webhook bot.               *)
(*                                                                         *)
(* One action per Flask handler that reaches the trading code              *)
(* (tradingview_webhook, test_webhook).  A handler runs to completion in   *)
(* one step; the answers of the exchange (bookTicker GET, order POST), the *)
(* clock and the success of the CSV append are inputs drawn with \E.       *)
(*                                                                         *)
(* Numbers.  Python floats are modelled as decimal values m * 10^e kept in *)
(* normal form (no trailing zero in m), plus NaN, which float() accepts    *)
(* ("nan", "NaN": what TradingView prints for an na value).  The number    *)
(* texts below are chosen so that the decimal arithmetic of the model and  *)
(* the binary arithmetic of Python agree on every comparison and rounding  *)
(* the code performs (no exact decimal tie at the 7th decimal, no product  *)
(* whose binary error crosses 1.0).                                        *)
(*                                                                         *)
(* Text.  A message is a sequence of tokens: ":" is the delimiter          *)
(* character, every other token is a maximal run of non-delimiter          *)
(* characters.  split, strip, upper and float are modelled on tokens.      *)
(***************************************************************************)
EXTENDS Integers, Sequences, FiniteSets, TLC

VARIABLES creds, threads, alerts, posts, csv_rows, last

vars == <<creds, threads, alerts, posts, csv_rows, last>>

\* Bound of the model: number of alerts handled in one behaviour.
MaxAlerts == 3

(***************************************************************************)
(* Decimal values                                                          *)
(***************************************************************************)
RECURSIVE Pow10(_)
Pow10(n) == IF n <= 0 THEN 1 ELSE 10 * Pow10(n - 1)

NaN == [k |-> "nan", m |-> 0, e |-> 0]

\* No number: the value of a field that was never parsed.
NoNum == [k |-> "none", m |-> 0, e |-> 0]

RECURSIVE Num(_, _)
Num(m, e) ==
    IF m = 0 THEN [k |-> "num", m |-> 0, e |-> 0]
    ELSE IF m % 10 = 0 THEN Num(m \div 10, e + 1)
    ELSE [k |-> "num", m |-> m, e |-> e]

Abs(m) == IF m < 0 THEN 0 - m ELSE m

\* Python `v <= 0` (False for NaN).
LeZero(v) == v.k = "num" /\ v.m <= 0

\* Python `v > 0` (False for NaN).
GtZero(v) == v.k = "num" /\ v.m > 0

\* Python `a * b`.
Mul(a, b) ==
    IF a.k = "num" /\ b.k = "num" THEN Num(a.m * b.m, a.e + b.e) ELSE NaN

\* Number of decimal digits of a positive integer.
RECURSIVE NumDigits(_)
NumDigits(m) == IF m < 10 THEN 1 ELSE 1 + NumDigits(m \div 10)

\* Python `v < 1.0` (False for NaN): m * 10^e < 1 iff m <= 0 or m has at
\* most -e digits.
LtOne(v) ==
    /\ v.k = "num"
    /\ \/ v.m <= 0
       \/ v.e < 0 /\ NumDigits(v.m) <= 0 - v.e

\* Python `v >= 1.0` (False for NaN).
GeOne(v) ==
    /\ v.k = "num"
    /\ v.m > 0
    /\ v.e >= 0 \/ NumDigits(v.m) > 0 - v.e

\* Number of decimals kept by round(x, 6).
Digits == 6

\* Python round(v, 6): nearest multiple of 10^-6, NaN stays NaN.  An exact
\* decimal tie is rounded to even; in Python the binary error of the float
\* decides it, and no number text of the model produces one.
Round6(v) ==
    IF v.k # "num" \/ v.e >= 0 - Digits THEN v
    ELSE LET d == Pow10(0 - Digits - v.e)
             a == Abs(v.m)
             q == a \div d
             r == a % d
             up == 2 * r > d \/ (2 * r = d /\ q % 2 = 1)
             n == IF up THEN q + 1 ELSE q
         IN  Num(IF v.m < 0 THEN 0 - n ELSE n, 0 - Digits)

(***************************************************************************)
(* Text                                                                    *)
(***************************************************************************)
\* str.strip() on a token.
Strip(t) ==
    CASE t = " buy "    -> "buy"
      [] t = " xrpusdt" -> "xrpusdt"
      [] t = " 100 "    -> "100"
      [] t = "buy "     -> "buy"
      [] t = " "        -> ""
      [] OTHER          -> t

\* str.lstrip() on a token.
LStrip(t) ==
    CASE t = " buy "    -> "buy "
      [] t = " xrpusdt" -> "xrpusdt"
      [] t = " 100 "    -> "100 "
      [] t = " "        -> ""
      [] OTHER          -> t

\* str.rstrip() on a token.
RStrip(t) ==
    CASE t = " buy "    -> " buy"
      [] t = "buy "     -> "buy"
      [] t = " 100 "    -> " 100"
      [] t = " "        -> ""
      [] OTHER          -> t

\* str.upper() on a token.
Upper(t) ==
    CASE t = "buy"     -> "BUY"
      [] t = "sell"    -> "SELL"
      [] t = "Sell"    -> "SELL"
      [] t = "hold"    -> "HOLD"
      [] t = "xrpusdt" -> "XRPUSDT"
      [] OTHER         -> t

\* float(text): the value, or NoNum when float() raises ValueError.
FloatOf(t) ==
    CASE t = "100"       -> Num(1, 2)
      [] t = "2"         -> Num(2, 0)
      [] t = "1"         -> Num(1, 0)
      [] t = "0.5"       -> Num(5, -1)
      [] t = "0"         -> Num(0, 0)
      [] t = "-1"        -> Num(-1, 0)
      [] t = "-0.5"      -> Num(-5, -1)
      [] t = "10000000"  -> Num(1, 7)
      [] t = "0.0000012" -> Num(12, -7)
      [] t = "0.0000004" -> Num(4, -7)
      [] t = "1.2345678" -> Num(12345678, -7)
      [] t = "nan"       -> NaN
      [] t = "NaN"       -> NaN
      [] OTHER           -> NoNum

\* message.split(':'): the fields between the delimiters, "" for an empty
\* field; always at least one field.
RECURSIVE SplitFrom(_, _, _)
SplitFrom(msg, i, cur) ==
    IF i > Len(msg) THEN <<cur>>
    ELSE IF msg[i] = ":" THEN <<cur>> \o SplitFrom(msg, i + 1, "")
    ELSE SplitFrom(msg, i + 1, msg[i])

Split(msg) == SplitFrom(msg, 1, "")

(***************************************************************************)
(* Pieces of text sent to the exchange: literal characters, or the         *)
(* rendering str(v) of a number.                                           *)
(***************************************************************************)
Lit(s) == [s |-> s, v |-> NoNum]

\* Python str(float): one text per value (repr round-trips).
Str(v) == [s |-> "", v |-> v]

\* ASCII codes of the parameter names, for Python's string ordering.
KeyCodes(key) ==
    CASE key = "symbol"      -> <<115, 121, 109, 98, 111, 108>>
      [] key = "side"        -> <<115, 105, 100, 101>>
      [] key = "type"        -> <<116, 121, 112, 101>>
      [] key = "timeInForce" -> <<116, 105, 109, 101, 73, 110, 70, 111, 114, 99, 101>>
      [] key = "quantity"    -> <<113, 117, 97, 110, 116, 105, 116, 121>>
      [] key = "price"       -> <<112, 114, 105, 99, 101>>
      [] key = "timestamp"   -> <<116, 105, 109, 101, 115, 116, 97, 109, 112>>
      [] key = "recvWindow"  -> <<114, 101, 99, 118, 87, 105, 110, 100, 111, 119>>
      [] key = "signature"   -> <<115, 105, 103, 110, 97, 116, 117, 114, 101>>

\* Python `a < b` on strings: lexicographic on code points, from index i.
RECURSIVE LexLessFrom(_, _, _)
LexLessFrom(a, b, i) ==
    IF i > Len(b) THEN FALSE
    ELSE IF i > Len(a) THEN TRUE
    ELSE IF a[i] # b[i] THEN a[i] < b[i]
    ELSE LexLessFrom(a, b, i + 1)

LexLess(a, b) == LexLessFrom(a, b, 1)

KeyLess(k1, k2) == LexLess(KeyCodes(k1), KeyCodes(k2))

\* sorted(params.items()): the (key, value) pairs by ascending key.
RECURSIVE InsertItem(_, _)
InsertItem(item, items) ==
    IF items = <<>> THEN <<item>>
    ELSE IF KeyLess(item[1], items[1][1]) THEN <<item>> \o items
    ELSE <<items[1]>> \o InsertItem(item, Tail(items))

RECURSIVE Sorted(_)
Sorted(items) ==
    IF items = <<>> THEN <<>> ELSE InsertItem(items[1], Sorted(Tail(items)))

\* '&'.join(f"{k}={v}" for k, v in items)
RECURSIVE Join(_)
Join(items) ==
    IF items = <<>> THEN <<>>
    ELSE <<Lit(items[1][1]), Lit("="), items[1][2]>>
         \o (IF Len(items) = 1 THEN <<>> ELSE <<Lit("&")>> \o Join(Tail(items)))

\* A signer that joins the parameters in insertion order.
QueryStringUnsorted(params) == Join(params)

\* The string that is signed and sent.
QueryString(params) == Join(Sorted(params))

\* hmac.new(secret, query_string, sha256).hexdigest(): a digest determined
\* by the key and the signed text.
Signature(secret, query_string) == [s |-> "hmac-sha256:" , v |-> NoNum, key |-> secret, text |-> query_string]

OrderEndpoint == Lit("https://api.mexc.com/api/v3/order?")

OrderUrl(query_string, signature) ==
    <<OrderEndpoint>> \o query_string \o <<Lit("&signature="), signature>>

\* The params dict of the order, in insertion order.
OrderParams(symbol, side, quantity, order_price, timestamp) ==
    << <<"symbol", Lit(symbol)>>,
       <<"side", Lit(Upper(side))>>,
       <<"type", Lit("LIMIT")>>,
       <<"timeInForce", Lit("GTC")>>,
       <<"quantity", Str(Round6(quantity))>>,
       <<"price", Str(Round6(order_price))>>,
       <<"timestamp", Lit(timestamp)>>,
       <<"recvWindow", Lit("5000")>> >>

(***************************************************************************)
(* The exchange, the clock and the disk, as seen by one alert              *)
(***************************************************************************)
\* Answers to GET /api/v3/ticker/bookTicker: 200 with bidPrice/askPrice,
\* a non-200 status, or an exception (timeout, body that is not the
\* expected JSON).
Books ==
    { <<Num(49, -2), Num(5, -1)>>,
      <<Num(3, -7), Num(4, -7)>>,
      <<Num(29, 5), Num(3, 6)>>,
      <<Num(0, 0), Num(5, -1)>>,
      <<Num(0, 0), Num(0, 0)>> }

TickerResponses ==
    { [kind |-> "ok", bid |-> b[1], ask |-> b[2]] : b \in Books }
    \cup { [kind |-> k, bid |-> NoNum, ask |-> NoNum] : k \in {"http_error", "exception"} }

\* Answers to POST /api/v3/order: 200 with a JSON body (with or without an
\* orderId), 200 with a body response.json() cannot decode, a non-200
\* status, or an exception raised by requests.post (timeout, connection).
PostResponses ==
    { [kind |-> "ok", code |-> "200", orderId |-> "C02__1"],
      [kind |-> "ok", code |-> "200", orderId |-> ""],
      [kind |-> "bad_json", code |-> "200", orderId |-> ""],
      [kind |-> "http_error", code |-> "400", orderId |-> ""],
      [kind |-> "exception", code |-> "", orderId |-> ""] }

\* str(int(time.time() * 1000))
Timestamps == {"1700000000000"}

(***************************************************************************)
(* MexcTradingBot                                                          *)
(***************************************************************************)
\* log_trade: the rows appended to trade_log.csv; none when the append
\* raises (the exception is logged and swallowed).
log_trade(row, csv_ok) == IF csv_ok THEN <<row>> ELSE <<>>

\* No request: the value of a field that holds no request.
NoCall ==
    [method |-> "", endpoint |-> "", symbol |-> "", url |-> <<>>, signed |-> <<>>,
     params |-> <<>>, apikey |-> ""]

\* get_current_prices: the request made and the prices returned.
get_current_prices(symbol, ticker) ==
    [call   |-> [NoCall EXCEPT !.method = "GET", !.endpoint = "bookTicker", !.symbol = symbol],
     prices |-> IF ticker.kind = "ok"
                THEN [bid |-> ticker.bid, ask |-> ticker.ask]
                ELSE [bid |-> Num(0, 0), ask |-> Num(0, 0)]]

\* A pricing rule with the two sides of the book exchanged.
OrderPriceSwapped(side, bid, ask) == IF Upper(side) = "BUY" THEN bid ELSE ask

\* The price of the order: the ask for a buy, the bid otherwise.
OrderPrice(side, bid, ask) == IF Upper(side) = "BUY" THEN ask ELSE bid

\* min_usdt_value = 1.0: True when the order value is below it.
BelowMinimum(order_value) == LtOne(order_value)

\* place_real_order up to the submission: the prices fetched, the checks,
\* and the signed request; error is "" when the order is to be submitted.
BuildOrder(symbol, side, quantity, strategy_price, ticker, now) ==
    LET fetched      == get_current_prices(symbol, ticker)
        current_bid  == fetched.prices.bid
        current_ask  == fetched.prices.ask
        order_price  == OrderPrice(side, current_bid, current_ask)
        order_value  == Mul(quantity, order_price)
        params       == OrderParams(symbol, side, quantity, order_price, now)
        query_string == QueryString(params)
        signature    == Signature(creds.api_secret, query_string)
        stop(e) == [error |-> e, get |-> fetched.call, post |-> NoCall, row |-> <<>>]
    IN  IF LeZero(current_ask) \/ LeZero(current_bid) THEN stop("no_prices")
        ELSE IF BelowMinimum(order_value) THEN stop("below_min")
        ELSE [error |-> "",
              get   |-> fetched.call,
              post  |-> [NoCall EXCEPT !.method = "POST", !.endpoint = "order",
                                       !.symbol = symbol,
                                       !.url = OrderUrl(query_string, signature),
                                       !.signed = query_string, !.params = params,
                                       !.apikey = creds.api_key],
              row   |-> [symbol |-> symbol, action |-> Upper(side),
                         strategy_price |-> strategy_price, order_price |-> order_price,
                         quantity |-> quantity, bid |-> current_bid, ask |-> current_ask]]

\* A submission that is repeated once when the exchange does not accept it.
PostCallsRetry(call, post) == IF post.kind = "ok" THEN <<call>> ELSE <<call, call>>

\* requests.post(url, headers=headers, timeout=10): the requests issued.
PostCalls(call, post) == <<call>>

NoOrderResult == [status |-> "", error |-> "", real_order |-> ""]

OrderError(e) == [status |-> "", error |-> e, real_order |-> ""]

\* A row of trade_log.csv (the timestamp column is left out).
Row(row, status, message) ==
    [symbol |-> row.symbol, action |-> row.action, strategy_price |-> row.strategy_price,
     order_price |-> row.order_price, quantity |-> row.quantity, bid |-> row.bid,
     ask |-> row.ask, status |-> status, message |-> message]

\* place_real_order from the submission on: the answer of the exchange
\* decides the audit row and the result.
SubmitOrder(order, post, csv_ok) ==
    LET sent == <<order.get>> \o PostCalls(order.post, post)
    IN  IF post.kind = "ok"
        THEN [result |-> [status |-> "success", error |-> "", real_order |-> post.orderId],
              calls  |-> sent,
              rows   |-> log_trade(Row(order.row, "SUCCESS", <<"Order", post.orderId>>), csv_ok)]
        ELSE IF post.kind = "http_error"
        THEN [result |-> OrderError("api_error"),
              calls  |-> sent,
              rows   |-> log_trade(Row(order.row, "ERROR", <<"MEXC API error", post.code>>), csv_ok)]
        ELSE [result |-> OrderError("exception"), calls |-> sent, rows |-> <<>>]

\* place_real_order when no order is submitted.
NoSubmit(order) ==
    [result |-> OrderError(order.error), calls |-> <<order.get>>, rows |-> <<>>]

\* A field count check that lets three-field messages through.
MinFieldsThree == 4 - 1

\* len(parts) < 4 is the format error.
MinFields == 4

NoOrder ==
    [status |-> "", error |-> "", symbol |-> "", quantity |-> NoNum,
     strategy_price |-> NoNum, result |-> NoOrderResult]

\* An action test whose final branch places the order instead of failing.
IsTradeActionAny(action) == TRUE

\* The test on the action that guards the two calls of place_real_order.
IsTradeAction(action) == action \in {"BUY", "SELL"}

\* The test on the parsed numbers that rejects the alert.
InvalidNumbers(quantity, strategy_price) == LeZero(quantity)

\* process_tradingview_alert up to the call of place_real_order: the fields
\* of the alert, or the error returned ("" when the order is to be placed).
\* The fields are read in the order of the code: parts[0], parts[1],
\* float(parts[2]), float(parts[3]); a missing field raises IndexError and a
\* text that is not a number ValueError, both caught by the handler.
ParseAlert(message) ==
    LET parts  == Split(message)
        n      == Len(parts)
        action == Upper(Strip(parts[1]))
        symbol == Upper(Strip(parts[2]))
        quantity       == FloatOf(Strip(parts[3]))
        strategy_price == FloatOf(Strip(parts[4]))
        none(e) == [error |-> e, action |-> "", symbol |-> "", quantity |-> NoNum,
                    strategy_price |-> NoNum]
    IN  IF n < MinFields THEN none("invalid_format")
        ELSE IF n < 3 THEN none("IndexError")
        ELSE IF quantity = NoNum THEN none("ValueError")
        ELSE IF n < 4 THEN none("IndexError")
        ELSE IF strategy_price = NoNum THEN none("ValueError")
        ELSE IF InvalidNumbers(quantity, strategy_price) THEN none("invalid_quantity")
        ELSE IF ~IsTradeAction(action) THEN none("unknown_action")
        ELSE [error |-> "", action |-> action, symbol |-> symbol, quantity |-> quantity,
              strategy_price |-> strategy_price]

\* The value process_tradingview_alert returns.
AlertResult(alert, placed) ==
    IF alert.error # "" THEN [NoOrder EXCEPT !.error = alert.error]
    ELSE [status |-> IF alert.action = "BUY" THEN "buy_order_placed" ELSE "sell_order_placed",
          error |-> "", symbol |-> alert.symbol, quantity |-> alert.quantity,
          strategy_price |-> alert.strategy_price, result |-> placed]

(***************************************************************************)
(* Flask handlers                                                          *)
(***************************************************************************)
TestMessage == <<"BUY", ":", "XRPUSDT", ":", "100", ":", "0.5">>

Messages ==
    { TestMessage,
      <<"SELL", ":", "XRPUSDT", ":", "100", ":", "0.5">>,
      <<" buy ", ":", " xrpusdt", ":", " 100 ", ":", "0.5">>,
      <<"BUY", ":", "XRPUSDT", ":", "1", ":", "0.5">>,
      <<"SELL", ":", "XRPUSDT", ":", "2", ":", "0.5">>,
      <<"BUY", ":", "XRPUSDT", ":", "0.5">>,
      <<"BUY|XRPUSDT|0.5">>,
      <<"BUY", ":", "XRPUSDT", ":", "abc", ":", "0.5">>,
      <<"BUY", ":", "XRPUSDT", ":", ":", "0.5">>,
      <<"SELL", ":", "XRPUSDT", ":", "100", ":", "abc">>,
      <<"HOLD", ":", "XRPUSDT", ":", "100", ":", "0.5">>,
      <<"BUY", ":", "XRPUSDT", ":", "0", ":", "0.5">>,
      <<"SELL", ":", "XRPUSDT", ":", "-1", ":", "0.5">>,
      <<"BUY", ":", "XRPUSDT", ":", "100", ":", "0">>,
      <<"SELL", ":", "XRPUSDT", ":", "100", ":", "-0.5">>,
      <<"BUY", ":", "PEPEUSDT", ":", "10000000", ":", "0.0000004">>,
      <<"BUY", ":", "BTCUSDT", ":", "0.0000004", ":", "100">>,
      <<"SELL", ":", "BTCUSDT", ":", "1.2345678", ":", "100">>,
      <<"BUY", ":", "XRPUSDT", ":", "NaN", ":", "0.5">>,
      <<"BUY", ":", "XRPUSDT", ":", "100", ":", "0.5", ":", "x">> }

\* The requests a client sends to /webhook/tradingview: the alert as the
\* raw body, or as the value of a key of a JSON object or of a form.
Requests ==
    { [is_json |-> FALSE, json |-> <<>>, form |-> <<>>, data |-> m] :
        m \in (Messages \ {TestMessage}) \cup {<<>>, <<" ">>} }
    \cup { [is_json |-> TRUE, json |-> <<>>, form |-> <<>>, data |-> <<>>],
           [is_json |-> TRUE, json |-> << <<"message", TestMessage>> >>, form |-> <<>>, data |-> <<>>],
           [is_json |-> TRUE, json |-> << <<"alert", <<"BUY", ":", "XRPUSDT">> >> >>,
            form |-> <<>>, data |-> <<>>],
           [is_json |-> TRUE, json |-> << <<"payload", <<"BUY|XRPUSDT|0.5">> >>,
                                          <<"data", <<"HOLD", ":", "XRPUSDT", ":", "100", ":", "0.5">> >> >>,
            form |-> <<>>, data |-> <<>>],
           [is_json |-> FALSE, json |-> <<>>, data |-> <<>>,
            form |-> << <<"payload", <<"BUY">> >>, <<"text", <<"SELL", ":", "XRPUSDT", ":", "100">> >> >>],
           [is_json |-> FALSE, json |-> <<>>, data |-> <<>>,
            form |-> << <<"symbol", <<"XRPUSDT">> >> >>] }

\* dict lookup in an ordered dict given as (key, value) pairs.
HasKey(d, k) == \E i \in 1..Len(d) : d[i][1] = k

Get(d, k) == d[CHOOSE i \in 1..Len(d) : d[i][1] = k][2]

\* data.strip() on the raw body.
StripMessage(m) ==
    IF m = <<>> THEN <<>>
    ELSE IF Len(m) = 1 THEN (IF Strip(m[1]) = "" THEN <<>> ELSE <<Strip(m[1])>>)
    ELSE <<LStrip(m[1])>> \o SubSeq(m, 2, Len(m) - 1) \o <<RStrip(m[Len(m)])>>

\* The message the webhook takes out of the request.
ExtractMessage(req) ==
    IF req.is_json
    THEN IF req.json = <<>> THEN <<>>
         ELSE IF HasKey(req.json, "message") THEN Get(req.json, "message")
         ELSE IF HasKey(req.json, "text") THEN Get(req.json, "text")
         ELSE IF HasKey(req.json, "alert") THEN Get(req.json, "alert")
         ELSE IF HasKey(req.json, "data") THEN Get(req.json, "data")
         ELSE req.json[1][2]
    ELSE IF req.form # <<>>
    THEN IF HasKey(req.form, "message") THEN Get(req.form, "message")
         ELSE IF HasKey(req.form, "text") THEN Get(req.form, "text")
         ELSE req.form[1][2]
    ELSE StripMessage(req.data)


\* No answer: the request was never made.
NoTicker == [kind |-> "", bid |-> NoNum, ask |-> NoNum]

NoPost == [kind |-> "", code |-> "", orderId |-> ""]

NoEnv == [ticker |-> NoTicker, post |-> NoPost, now |-> "", csv_ok |-> TRUE]

Init ==
    /\ creds \in { [api_key |-> "", api_secret |-> ""],
                   [api_key |-> "mx0key", api_secret |-> "secret"] }
    /\ threads = { [target |-> "ping_loop", daemon |-> TRUE] }
    /\ alerts = 0
    /\ posts = 0
    /\ csv_rows = 0
    /\ last = [message |-> <<>>, env |-> NoEnv, result |-> NoOrder, calls |-> <<>>, rows |-> <<>>]

\* Number of order submissions among the requests of one alert.
CountPosts(calls) == Cardinality({ i \in 1..Len(calls) : calls[i].method = "POST" })

\* The effect of one call of process_tradingview_alert on the state.
Record(message, env, alert, placed) ==
    /\ alerts' = alerts + 1
    /\ posts' = posts + CountPosts(placed.calls)
    /\ csv_rows' = csv_rows + Len(placed.rows)
    /\ last' = [message |-> message, env |-> env, result |-> AlertResult(alert, placed.result),
                calls |-> placed.calls, rows |-> placed.rows]
    /\ UNCHANGED <<creds, threads>>

\* bot.process_tradingview_alert(message), run to completion.  The exchange
\* answers each request when it is made: the ticker when the alert parses,
\* the order endpoint when the order passes the checks; the append to the
\* CSV can fail only when log_trade is called.
process_tradingview_alert(message) ==
    /\ alerts < MaxAlerts
    /\ \E alert \in {ParseAlert(message)} :
         IF alert.error # ""
         THEN Record(message, NoEnv, alert,
                     [result |-> NoOrderResult, calls |-> <<>>, rows |-> <<>>])
         ELSE \E ticker \in TickerResponses, now \in Timestamps :
                \E order \in {BuildOrder(alert.symbol, alert.action, alert.quantity,
                                         alert.strategy_price, ticker, now)} :
                  IF order.error # ""
                  THEN Record(message, [NoEnv EXCEPT !.ticker = ticker], alert, NoSubmit(order))
                  ELSE \E post \in PostResponses, csv_ok \in BOOLEAN :
                         \E placed \in {SubmitOrder(order, post, csv_ok)} :
                           /\ csv_ok \/ SubmitOrder(order, post, TRUE).rows # <<>>
                           /\ Record(message,
                                     [ticker |-> ticker, post |-> post, now |-> now,
                                      csv_ok |-> csv_ok],
                                     alert, placed)

tradingview_webhook ==
    \E req \in Requests :
        LET message == ExtractMessage(req)
        IN  IF message = <<>>   \* 400 "No message received"
            THEN UNCHANGED vars
            ELSE process_tradingview_alert(message)

test_webhook == process_tradingview_alert(TestMessage)

Next == tradingview_webhook \/ test_webhook

Spec == Init /\ [][Next]_vars

(***************************************************************************)
(* Properties                                                              *)
(***************************************************************************)
\* The alert most recently handled, as the claims speak of it.
Handled == alerts > 0

HasPost == CountPosts(last.calls) > 0

ThePost == last.calls[CHOOSE i \in 1..Len(last.calls) : last.calls[i].method = "POST"]

\* The value of a parameter in the query string that was sent.
SentParam(key) ==
    LET url == ThePost.url
        i   == CHOOSE j \in 2..(Len(url) - 2) :
                  /\ url[j].s = key
                  /\ url[j + 1].s = "="
                  /\ url[j - 1].s \in {"&", OrderEndpoint.s}
    IN  url[i + 2]

LastParts == Split(last.message)

LastAction == Upper(Strip(LastParts[1]))

LastQuantity == FloatOf(Strip(LastParts[3]))

LastPrice == FloatOf(Strip(LastParts[4]))

\* The price the claims expect in the order: the ask for BUY, the bid for SELL.
BookPrice == IF LastAction = "BUY" THEN last.env.ticker.ask ELSE last.env.ticker.bid

\* C1 (as stated): every alert handled, whatever its outcome, appends
\* exactly one audit record: the log has as many rows as alerts handled and
\* the last alert appended exactly one.
C1_ExactlyOneRecordPerAlert ==
    /\ csv_rows = alerts
    /\ Handled => Len(last.rows) = 1

\* C2: handling one alert issues at most one order POST, whatever the
\* exchange answers, so the submissions never outnumber the alerts.
C2_NoRetry ==
    /\ posts <= alerts
    /\ CountPosts(last.calls) <= 1

\* C2 witness: a second alert whose single submission the exchange refused
\* or never answered.
C2_Witness ==
    /\ alerts >= 2
    /\ posts >= 1
    /\ last.env.post.kind \in {"http_error", "exception"}
    /\ CountPosts(last.calls) = 1

\* A malformed alert: fewer than four fields, a quantity or price that is
\* not a number, or an action other than BUY/SELL.
Malformed ==
    \/ Len(LastParts) < 4
    \/ LastQuantity = NoNum
    \/ LastPrice = NoNum
    \/ LastAction \notin {"BUY", "SELL"}

\* C3: a malformed alert returns an error result and makes no network
\* call, neither the bookTicker GET nor the order POST.
C3_MalformedNoNetwork ==
    (Handled /\ Malformed) => (last.result.error # "" /\ last.calls = <<>>)

\* C3 witness: a four-field alert with numeric fields and an action that is
\* neither BUY nor SELL was answered with an error.
C3_Witness ==
    /\ Handled
    /\ Len(LastParts) >= 4
    /\ LastQuantity # NoNum /\ LastPrice # NoNum
    /\ LastAction = "HOLD"
    /\ last.result.error = "unknown_action"

\* C4 (as stated): an order POST is issued only when bid > 0, ask > 0 and
\* quantity x order price >= 1.0; otherwise place_real_order returns an
\* error and submits nothing.
C4_PostOnlyWithPricesAndMinimum ==
    (Handled /\ last.result.error = "") =>
        LET ok == /\ GtZero(last.env.ticker.bid)
                  /\ GtZero(last.env.ticker.ask)
                  /\ GeOne(Mul(last.result.quantity, BookPrice))
        IN  /\ HasPost => ok
            /\ ~ok => (~HasPost /\ last.result.result.error \in {"no_prices", "below_min"})

\* C5 (as stated): the submitted request has the alert's side and quantity,
\* type LIMIT, timeInForce GTC, and the ask (BUY) or bid (SELL) as price.
C5_RequestEqualsAlertAndBook ==
    HasPost =>
        /\ SentParam("side") = Lit(LastAction)
        /\ SentParam("quantity") = Str(LastQuantity)
        /\ SentParam("type") = Lit("LIMIT")
        /\ SentParam("timeInForce") = Lit("GTC")
        /\ SentParam("price") = Str(BookPrice)

\* C5 (amended): the submitted request has the alert's side, type LIMIT,
\* timeInForce GTC, the alert's quantity rounded to 6 decimals, and as price
\* the ask (BUY) or bid (SELL) rounded to 6 decimals; the strategy price of
\* the alert plays no part.
C5_RequestEqualsRoundedAlertAndBook ==
    HasPost =>
        /\ SentParam("side") = Lit(LastAction)
        /\ SentParam("quantity") = Str(Round6(LastQuantity))
        /\ SentParam("type") = Lit("LIMIT")
        /\ SentParam("timeInForce") = Lit("GTC")
        /\ SentParam("price") = Str(Round6(BookPrice))

\* C5 witness: BUY:XRPUSDT:100:0.5 with bid 0.49 / ask 0.50 was submitted as
\* side BUY, price 0.50, quantity 100.
C5_Witness ==
    /\ last.message = TestMessage
    /\ last.env.ticker.bid = Num(49, -2)
    /\ last.env.ticker.ask = Num(5, -1)
    /\ HasPost
    /\ SentParam("side") = Lit("BUY")
    /\ SentParam("price") = Str(Num(5, -1))
    /\ SentParam("quantity") = Str(Num(1, 2))

\* C6 (as stated): in every request that is signed and sent, the rounded
\* quantity and the rounded price placed in the request are strictly
\* positive, and so is their product.
C6_SentValuesPositive ==
    HasPost =>
        /\ GtZero(SentParam("quantity").v)
        /\ GtZero(SentParam("price").v)
        /\ GtZero(Mul(SentParam("quantity").v, SentParam("price").v))

\* C7 (as stated): an alert whose quantity or price field is <= 0 yields an
\* error result and never reaches place_real_order.
C7_NonPositiveRejected ==
    (Handled /\ Len(LastParts) >= 4 /\ (LeZero(LastQuantity) \/ LeZero(LastPrice))) =>
        (last.result.error # "" /\ last.calls = <<>>)

\* The background threads that track an order.
Trackers == { t \in threads : t.target # "ping_loop" }

\* C8 (as stated): once the exchange has accepted an order (200 with an
\* orderId), exactly one order tracker has been started for it.
C8_TrackerPerAcceptedOrder ==
    (Handled /\ last.result.result.status = "success" /\ last.result.result.real_order # "") =>
        Cardinality(Trackers) = 1

\* The keys of the signed string, in the order they appear in it.
SignedKeys(signed) == [j \in 1..((Len(signed) + 1) \div 4) |-> signed[4 * j - 3].s]

\* C9: the signed string holds every field of the request except the
\* signature as key=value joined by '&' in ascending key order, the
\* signature is computed over it, and the URL sent is the endpoint, that
\* same string, and the signature parameter.
C9_SignedIsSent ==
    HasPost =>
        LET c    == ThePost
            keys == SignedKeys(c.signed)
            sig  == c.url[Len(c.url)]
        IN  /\ Len(c.signed) = 4 * Len(c.params) - 1
            /\ \A j \in 1..Len(keys) :
                 /\ c.signed[4 * j - 2] = Lit("=")
                 /\ HasKey(c.params, keys[j])
                 /\ c.signed[4 * j - 1] = Get(c.params, keys[j])
                 /\ j < Len(keys) => c.signed[4 * j] = Lit("&")
                 /\ j < Len(keys) => KeyLess(keys[j], keys[j + 1])
                 /\ keys[j] # "signature"
            /\ \A i \in 1..Len(c.params) : \E j \in 1..Len(keys) : keys[j] = c.params[i][1]
            /\ sig.text = c.signed
            /\ sig.key = creds.api_secret
            /\ c.url = <<OrderEndpoint>> \o c.signed \o <<Lit("&signature="), sig>>

\* C9 witness: a SELL order was sent with credentials configured; its
\* signed string starts with the price and ends with the type.
C9_Witness ==
    /\ HasPost
    /\ creds.api_secret # ""
    /\ LastAction = "SELL"
    /\ ThePost.signed[1] = Lit("price")
    /\ ThePost.signed[Len(ThePost.signed) - 2] = Lit("type")

\* A three-field alert ACTION:SYMBOL:SIZE with a BUY/SELL action and a
\* positive numeric size.
ThreeFieldNotional ==
    /\ Len(LastParts) = 3
    /\ LastAction \in {"BUY", "SELL"}
    /\ GtZero(LastQuantity)

====
